---- MODULE Spec2Model ----
\* Model of the FIFO job queue (job_queue.py) and of the DownloadWorker threads
\* (worker.py) that it launches, together with the one GUI control that writes
\* the queue's state (the "Parallel" combo box of gui.py).
\*
\* Job objects live on a heap indexed by an identifier that is the order of
\* their construction in enqueue.  pending and running hold identifiers.  Job is
\* a @dataclass, so `job in list`, list.index, list.remove and deque.remove
\* compare jobs by their fields (urls, opts, out_dir, state, worker), not by
\* identity: JobEq models that comparison.
EXTENDS Integers, Sequences, FiniteSets, TLC

\* ------------------------------------------------------------------ bounds
MaxJobs == 3
\* The number of pieces a _percent_str text is made of, at most.
MaxTokens == 4
\* The number of events of a worker that wait when it writes a log line, at most.
MaxLogs == 1

\* ------------------------------------------------------------------ constants
\* The "Parallel" combo box offers the values 1..4.
MaxParallelUI == 4

\* JobQueue(max_parallel=1), as the main window constructs it.
InitialParallel == 1

\* (urls, opts, out_dir) of a job, abstracted to one value: two jobs with the
\* same Contents value have equal urls, opts and out_dir.  The values are
\* names of classes of equal contents; the first job's class is named "a".
Contents == {"a", "b"}

\* Texts, as sequences of characters.
FinishedTxt == <<"F", "i", "n", "i", "s", "h", "e", "d">>
ErrorPrefix == <<"E", "r", "r", "o", "r">>
\* str(exc) of the exceptions the engine raises.
ExcMessages == { <<"n", "e", "t">> }

\* f"Error: {exc}"
ErrorTxt(exc) == ErrorPrefix \o <<":", " ">> \o exc

\* The status texts DownloadWorker.run can emit.
StatusTexts == {FinishedTxt} \cup {ErrorTxt(e) : e \in ExcMessages}

\* A comparison of the whole text where the code tests a prefix.
StartsWithExact(txt, prefix) == txt = prefix

\* str.startswith
StartsWith(txt, prefix) ==
    /\ Len(txt) >= Len(prefix)
    /\ \A i \in 1..Len(prefix) : txt[i] = prefix[i]

JobIds == 1..MaxJobs
NoContent == "-"
NoWorker == 0
NoTxt == << >>

VARIABLES
    max_parallel,  \* JobQueue._max_parallel
    pending,       \* JobQueue._pending: sequence of job identifiers
    running,       \* JobQueue._running: sequence of job identifiers
    njobs,         \* number of Job objects constructed so far
    job,           \* the Job objects: identifier -> [content, state, worker]
    wthread,       \* per worker thread: "none" | "running" | "ended"
    inbox,         \* per worker: events queued for the control thread
    launched,      \* history: identifiers in the order of their launch
    hook_data,     \* the dict the engine calls a worker's progress hook with
    hook_out       \* what that call of the hook did

vars == <<max_parallel, pending, running, njobs, job, wthread, inbox, launched,
          hook_data, hook_out>>

\* The variables of the progress hook.
hookvars == <<hook_data, hook_out>>

\* ------------------------------------------------------------------ helpers
Terminal == {"Done", "Error", "Cancelled"}

\* Job.__eq__ generated by @dataclass.  heap is the function of Job objects.
JobEq(heap, a, b) == a = b \/ heap[a] = heap[b]

\* seq.index(x): 0-based position of the first element equal to x, -1 if none.
RECURSIVE IndexFrom(_, _, _, _)
IndexFrom(heap, seq, x, i) ==
    IF i > Len(seq) THEN -1
    ELSE IF JobEq(heap, seq[i], x) THEN i - 1
    ELSE IndexFrom(heap, seq, x, i + 1)

Index(heap, seq, x) == IndexFrom(heap, seq, x, 1)

\* x in seq
Contains(heap, seq, x) == Index(heap, seq, x) >= 0

\* A remove that leaves the sequence as it is.
RemoveNothing(heap, seq, x) == seq

\* seq.remove(x): drops the first element equal to x.  Python raises
\* ValueError when there is none; both callers make that a no-op.
Remove(heap, seq, x) ==
    LET i == Index(heap, seq, x) IN
    IF i < 0 THEN seq
    ELSE SubSeq(seq, 1, i) \o SubSeq(seq, i + 2, Len(seq))

\* JobQueue.jobs()
Jobs(p, r) == p \o r

\* A jobs() that hands out self._running itself when nothing is pending.
JobsAliasRunning(q) ==
    [after |-> q,
     seq |-> Jobs(q.pending, q.running),
     obj |-> IF Len(q.pending) = 0 THEN "running" ELSE "new"]

\* A call of jobs(): the queue it leaves, the sequence it returns, and which
\* list object that is: list(self._pending) + self._running builds a new list.
JobsCall(q) ==
    [after |-> q,
     seq |-> Jobs(q.pending, q.running),
     obj |-> "new"]

\* The caller makes the list that a call ret of jobs() returned hold s: a list
\* of the queue changes if the returned list is that very object.
ChangeReturned(ret, s) ==
    IF ret.obj = "pending" THEN [ret.after EXCEPT !.pending = s]
    ELSE IF ret.obj = "running" THEN [ret.after EXCEPT !.running = s]
    ELSE ret.after

JobUpdated(i) == [sig |-> "job_updated", idx |-> i, txt |-> NoTxt]
Message(t) == [sig |-> "message", idx |-> -1, txt |-> t]
QueueEmpty == [sig |-> "queue_empty", idx |-> -1, txt |-> NoTxt]

StatusEvent(t) == [kind |-> "status", txt |-> t]
FinishedEvent == [kind |-> "finished", txt |-> NoTxt]
LogEvent(t) == [kind |-> "log", txt |-> t]
ProgressEvent(p) == [kind |-> "progress", txt |-> p.name, pct |-> p.pct]

\* The signals of a worker that _launch_if_possible connects a slot to:
\* log_signal, status_signal and finished.
Wired == {"log", "status", "finished"}

\* The state a method of the queue starts from, as one record, with what the
\* call does besides writing fields: the signals it emits, in order, the
\* workers it calls terminate() on, and whether an exception leaves it.
Q == [pending |-> pending, running |-> running, job |-> job,
      wthread |-> wthread, inbox |-> inbox, launched |-> launched,
      emitted |-> << >>, terminated |-> {}, raised |-> FALSE]

\* ------------------------------------------------------------------ JobQueue
\* The loop condition with <= for <.
CanLaunchOffByOne(p, r, mp) == Len(p) > 0 /\ Len(r) <= mp

\* The loop condition of _launch_if_possible.
CanLaunch(p, r, mp) == Len(p) > 0 /\ Len(r) < mp

\* deque.pop(): the element taken from the right end, and the rest.
PopRight(p) == [head |-> p[Len(p)], rest |-> SubSeq(p, 1, Len(p) - 1)]

\* deque.popleft(): the element taken and the rest.
PopLeft(p) == [head |-> Head(p), rest |-> Tail(p)]

\* One iteration of the loop of _launch_if_possible.
LaunchOne(q) ==
    LET pop == PopLeft(q.pending)
        j == pop.head
        heap == [q.job EXCEPT ![j].worker = j, ![j].state = "Running"]
        r == Append(q.running, j)
    IN [q EXCEPT !.pending = pop.rest,
                 !.running = r,
                 !.job = heap,
                 !.wthread[j] = "running",
                 !.launched = Append(@, j),
                 !.emitted = Append(@, JobUpdated(Index(heap, Jobs(pop.rest, r), j)))]

\* An admission pass that launches one job at most.
LaunchOnce(q, mp) == IF CanLaunch(q.pending, q.running, mp) THEN LaunchOne(q) ELSE q

RECURSIVE LaunchIfPossible(_, _)
LaunchIfPossible(q, mp) ==
    IF CanLaunch(q.pending, q.running, mp)
    THEN LaunchIfPossible(LaunchOne(q), mp)
    ELSE q

\* The Job objects as the model's state keeps them.  The contents of a job
\* are read by Job.__eq__ alone, and __eq__ can depend on them only between
\* two jobs of pending: every job compared is a member of pending or running
\* or has a worker, a job with a worker equals no other job (each launch
\* constructs its own DownloadWorker, compared by identity), and a job without
\* one is in running never.  The state keeps the contents of the jobs of
\* pending and not the others'.
Kept(heap, p) ==
    [j \in JobIds |->
        IF \E i \in DOMAIN p : p[i] = j
        THEN heap[j]
        ELSE [heap[j] EXCEPT !.content = NoContent]]

\* The fields a method call leaves, written to the variables.
Commit(q) ==
    /\ pending' = q.pending
    /\ running' = q.running
    /\ job' = Kept(q.job, q.pending)
    /\ wthread' = q.wthread
    /\ inbox' = q.inbox
    /\ launched' = q.launched

\* JobQueue.enqueue
EnqueueQ(q, j, c, mp) ==
    LaunchIfPossible(
        [q EXCEPT !.pending = Append(@, j),
                  !.job[j] = [content |-> c, state |-> "Queued", worker |-> NoWorker]],
        mp)

\* The contents enqueue can be called with.
NewContents == IF njobs = 0 THEN {"a"} ELSE Contents

\* enqueue(urls, opts, out_dir) called in the current state.
EnqueueResult(c) == EnqueueQ(Q, njobs + 1, c, max_parallel)

Enqueue(c) ==
    /\ njobs < MaxJobs
    /\ njobs' = njobs + 1
    /\ Commit(EnqueueResult(c))
    /\ UNCHANGED <<max_parallel, hookvars>>

\* The range test without its idx < 0 half.
OutOfRangeNoNeg(idx, n) == idx >= n

\* The range test of cancel.
OutOfRange(idx, n) == idx < 0 \/ idx >= n

\* Whether list[idx] exists in Python (a negative idx counts from the end).
ValidIndex(idx, n) == -n <= idx /\ idx < n

\* list[idx]
GetItem(seq, idx) == IF idx < 0 THEN seq[Len(seq) + idx + 1] ELSE seq[idx + 1]

\* QThread.terminate(): a thread still executing is stopped and its finished
\* signal is queued; a thread that has ended is left alone.
Terminate(q, w) ==
    LET stopped ==
            IF q.wthread[w] = "running"
            THEN [q EXCEPT !.wthread[w] = "ended",
                           !.inbox[w] = Append(@, FinishedEvent)]
            ELSE q
    IN [stopped EXCEPT !.terminated = @ \cup {w}]

\* The Running branch leaving the state to the worker's own events.
CancelRunningNoState(q, j) == Terminate(q, q.job[j].worker)

\* The test of cancel's first branch without its state half.
HasWorker(q, j) == q.job[j].worker # NoWorker

\* The test of cancel's first branch: job.state == "Running" and job.worker
IsRunning(q, j) == q.job[j].state = "Running" /\ q.job[j].worker # NoWorker

\* cancel, the branch of a Running job.
CancelRunning(q, j) ==
    [Terminate(q, q.job[j].worker) EXCEPT !.job[j].state = "Cancelled"]

\* cancel, the branch of a Queued job.
CancelQueued(q, j) ==
    [q EXCEPT !.pending = Remove(q.job, q.pending, j),
              !.job[j].state = "Cancelled"]

\* JobQueue.cancel
CancelQ(q, idx) ==
    LET jobs == Jobs(q.pending, q.running) IN
    IF OutOfRange(idx, Len(jobs)) THEN q
    ELSE IF ~ValidIndex(idx, Len(jobs)) THEN [q EXCEPT !.raised = TRUE]
    ELSE
        LET j == GetItem(jobs, idx)
            after ==
                IF IsRunning(q, j)
                THEN CancelRunning(q, j)
                ELSE IF q.job[j].state = "Queued"
                THEN CancelQueued(q, j)
                ELSE q
        IN [after EXCEPT !.emitted = Append(@, JobUpdated(idx))]

\* Whether idx is a position of the combined view.
InView(idx) == 0 <= idx /\ idx < Len(Jobs(pending, running))

\* The job at position idx of the combined view, 0 when there is none.
Target(idx) == IF InView(idx) THEN Jobs(pending, running)[idx + 1] ELSE 0

\* cancel(idx) called in the current state.
CancelResult(idx) == CancelQ(Q, idx)

Cancel(idx) ==
    /\ Commit(CancelResult(idx))
    /\ UNCHANGED <<max_parallel, njobs, hookvars>>

\* JobQueue._handle_status
HandleStatusQ(q, j, txt) ==
    LET q1 == IF StartsWith(txt, ErrorPrefix)
              THEN [q EXCEPT !.job[j].state = "Error",
                             !.emitted = Append(@, Message(txt))]
              ELSE q
        all_jobs == Jobs(q1.pending, q1.running)
    IN IF Contains(q1.job, all_jobs, j)
       THEN [q1 EXCEPT !.emitted = Append(@, JobUpdated(Index(q1.job, all_jobs, j)))]
       ELSE q1

\* A completion handler that leaves the state as it finds it.
FinishedStateKeep(s) == s

\* The state _on_finished gives a job.
FinishedState(s) == IF s \notin {"Error", "Cancelled"} THEN "Done" ELSE s

\* The drain test looking at pending alone.
PendingDrained(p, r) == Len(p) = 0

\* The drain test of _on_finished: not self._pending and not self._running
QueueDrained(p, r) == Len(p) = 0 /\ Len(r) = 0

\* JobQueue._on_finished
OnFinishedQ(q, j, mp) ==
    LET q1 == [q EXCEPT !.job[j].state = FinishedState(@)]
        all_jobs == Jobs(q1.pending, q1.running)
        q2 == IF Contains(q1.job, all_jobs, j)
              THEN [q1 EXCEPT !.emitted =
                        Append(@, JobUpdated(Index(q1.job, all_jobs, j)))]
              ELSE q1
        q3 == IF Contains(q2.job, q2.running, j)
              THEN [q2 EXCEPT !.running = Remove(q2.job, q2.running, j)]
              ELSE q2
    IN IF QueueDrained(q3.pending, q3.running)
       THEN [q3 EXCEPT !.emitted = Append(@, QueueEmpty)]
       ELSE LaunchIfPossible(q3, mp)

\* Worker w emits the signal ev from its thread: the event is queued for the
\* control thread if a slot is connected to the signal, and lost if none is.
Route(q, w, ev) ==
    IF ev.kind \in Wired THEN [q EXCEPT !.inbox[w] = Append(@, ev)] ELSE q

\* The slot of log_signal: self.message.emit
HandleLogQ(q, txt) == [q EXCEPT !.emitted = Append(@, Message(txt))]

\* The slot connected to the signal of event ev of worker w, run in q.
SlotQ(q, w, ev, mp) ==
    IF ev.kind = "status" THEN HandleStatusQ(q, w, ev.txt)
    ELSE IF ev.kind = "log" THEN HandleLogQ(q, ev.txt)
    ELSE IF ev.kind = "finished" THEN OnFinishedQ(q, w, mp)
    ELSE q

\* The control thread takes the next queued event of worker w and runs the
\* slot connected to it.
DeliverResult(w) ==
    SlotQ([Q EXCEPT !.inbox[w] = Tail(@)], w, Head(inbox[w]), max_parallel)

Deliver(w) ==
    /\ Len(inbox[w]) > 0
    /\ Commit(DeliverResult(w))
    /\ UNCHANGED <<max_parallel, njobs, hookvars>>

\* A setter that runs an admission pass with the new value.
SetMaxParallelAndLaunch(i) ==
    /\ i + 1 # max_parallel
    /\ max_parallel' = i + 1
    /\ Commit(LaunchIfPossible(Q, i + 1))
    /\ UNCHANGED <<njobs, hookvars>>

\* The "Parallel" combo box: currentIndexChanged(i) sets _max_parallel = i + 1.
SetMaxParallel(i) ==
    /\ i + 1 # max_parallel
    /\ max_parallel' = i + 1
    /\ UNCHANGED <<pending, running, njobs, job, wthread, inbox, launched, hookvars>>

\* ------------------------------------------------------------------ DownloadWorker
\* The classes of the failures the engine's download call raises; each is
\* derived from Exception.
ExcClasses == {"DownloadError", "OSError"}

\* What the engine's download call does: it returns, or raises an exception of
\* class cls with text exc.
Returned == [raised |-> FALSE, cls |-> "-", exc |-> NoTxt]
Raised(cls, exc) == [raised |-> TRUE, cls |-> cls, exc |-> exc]
Outcomes == {Returned} \cup {Raised(cls, e) : cls \in ExcClasses, e \in ExcMessages}

\* An except clause that names the engine's own error class.
CatchesDownloadError(cls) == cls = "DownloadError"

\* except Exception
Catches(cls) == cls \in ExcClasses

\* run(): the try statement around the engine call emits "Finished" when the
\* call returns and "Error: exc" when it raises an exception the except clause
\* catches; then run returns, or the exception leaves it, the thread ends and
\* QThread emits finished.
Run(o) ==
    LET status == IF ~o.raised THEN <<StatusEvent(FinishedTxt)>>
                  ELSE IF Catches(o.cls) THEN <<StatusEvent(ErrorTxt(o.exc))>>
                  ELSE << >>
    IN [events |-> status \o <<FinishedEvent>>,
        uncaught |-> o.raised /\ ~Catches(o.cls)]

\* The thread of worker w runs to its end with outcome o of the engine call.
\* The signals are queued for the control thread, in the order of emission.
WorkerRun(w, o) ==
    /\ wthread[w] = "running"
    /\ wthread' = [wthread EXCEPT ![w] = "ended"]
    /\ inbox' = [inbox EXCEPT ![w] = @ \o Run(o).events]
    /\ UNCHANGED <<max_parallel, pending, running, njobs, job, launched, hookvars>>

\* ------------------------------------------------------------------ DownloadWorker._hook
\* Characters of the texts the engine hands to the progress hook.
ESC == "\\x1b"
DigitChars == <<"0", "1", "2", "3", "4", "5", "6", "7", "8", "9">>
IsDigit(c) == \E i \in DOMAIN DigitChars : DigitChars[i] = c
DigitVal(c) == (CHOOSE i \in DOMAIN DigitChars : DigitChars[i] = c) - 1

\* str.replace("%", "")
ReplacePercent(s) == SelectSeq(s, LAMBDA c : c # "%")

\* The end of the match of [0-9;]* that starts at position i of s: the first
\* position from i on that holds no digit and no ";".
RECURSIVE ParamsEnd(_, _)
ParamsEnd(s, i) ==
    IF i <= Len(s) /\ (IsDigit(s[i]) \/ s[i] = ";") THEN ParamsEnd(s, i + 1) ELSE i

\* Whether _ANSI_RE = \x1b\[[0-9;]*m matches at position i of s, and the
\* position after the match: 0 when there is none.
AnsiMatchEnd(s, i) ==
    IF i + 1 <= Len(s) /\ s[i] = ESC /\ s[i + 1] = "["
    THEN LET e == ParamsEnd(s, i + 2)
         IN IF e <= Len(s) /\ s[e] = "m" THEN e + 1 ELSE 0
    ELSE 0

\* A substitution that leaves the text as it is.
AnsiSubNothing(s, i) == SubSeq(s, i, Len(s))

\* _ANSI_RE.sub("", s), from position i on: the matches are dropped, left to
\* right.
RECURSIVE AnsiSub(_, _)
AnsiSub(s, i) ==
    IF i > Len(s) THEN << >>
    ELSE IF AnsiMatchEnd(s, i) > 0 THEN AnsiSub(s, AnsiMatchEnd(s, i))
    ELSE <<s[i]>> \o AnsiSub(s, i + 1)

\* str.strip(), for texts whose only whitespace is the space.
RECURSIVE LStrip(_)
LStrip(s) == IF Len(s) > 0 /\ Head(s) = " " THEN LStrip(Tail(s)) ELSE s
RECURSIVE RStrip(_)
RStrip(s) ==
    IF Len(s) > 0 /\ s[Len(s)] = " " THEN RStrip(SubSeq(s, 1, Len(s) - 1)) ELSE s
Strip(s) == RStrip(LStrip(s))

\* The value of the digits ds read as a decimal integer.
RECURSIVE IntOf(_)
IntOf(ds) ==
    IF Len(ds) = 0 THEN 0
    ELSE 10 * IntOf(SubSeq(ds, 1, Len(ds) - 1)) + DigitVal(ds[Len(ds)])

\* The digits ds without their trailing zeros.
RECURSIVE DropZeros(_)
DropZeros(ds) ==
    IF Len(ds) > 0 /\ ds[Len(ds)] = "0" THEN DropZeros(SubSeq(ds, 1, Len(ds) - 1)) ELSE ds

\* A floating-point number with a short decimal expansion: its whole part and
\* the digits after the point.
Float(whole, frac) == [whole |-> whole, frac |-> DropZeros(frac)]
Zero == Float(0, << >>)

\* float(s) for a text s of digits, points and other characters, without
\* sign, exponent or underscore: digits with at most one point and at least
\* one digit are a number, everything else is a ValueError.
ParseFloat(s) ==
    LET points == {i \in DOMAIN s : s[i] = "."}
        wellformed == /\ \A i \in DOMAIN s : IsDigit(s[i]) \/ s[i] = "."
                      /\ Cardinality(points) <= 1
                      /\ \E i \in DOMAIN s : IsDigit(s[i])
        p == IF points = {} THEN Len(s) + 1 ELSE CHOOSE i \in points : TRUE
    IN IF wellformed
       THEN [err |-> "none",
             val |-> Float(IntOf(SubSeq(s, 1, p - 1)), SubSeq(s, p + 1, Len(s)))]
       ELSE [err |-> "ValueError", val |-> Zero]

\* Path(filename).name for a relative POSIX path without trailing slash: what
\* follows the last "/".
RECURSIVE Basename(_)
Basename(s) ==
    IF \E i \in DOMAIN s : s[i] = "/"
    THEN Basename(Tail(s))
    ELSE s

\* dict.get(key, ""): a key of the dict the engine passes may be missing.
Missing == <<"<missing>">>
Get(v) == IF v = Missing THEN << >> ELSE v

\* except ValueError
CatchesValueError(err) == err = "ValueError"

\* DownloadWorker._hook(data): the progress_signal emissions, and whether an
\* exception leaves the hook.
Hook(data) ==
    IF data.status # "downloading"
    THEN [emitted |-> << >>, raised |-> FALSE]
    ELSE LET pct_raw == AnsiSub(ReplacePercent(Get(data.percent_str)), 1)
             txt == Strip(pct_raw)
             parsed == IF txt = << >> THEN [err |-> "none", val |-> Zero]
                       ELSE ParseFloat(txt)
             name == Basename(Get(data.filename))
         IN IF parsed.err = "none"
            THEN [emitted |-> <<[pct |-> parsed.val, name |-> name]>>, raised |-> FALSE]
            ELSE IF CatchesValueError(parsed.err)
            THEN [emitted |-> <<[pct |-> Zero, name |-> name]>>, raised |-> FALSE]
            ELSE [emitted |-> << >>, raised |-> TRUE]

\* No call of the hook: no dict, no result.
NoData == [status |-> "-", percent |-> << >>, filename |-> << >>]
NotCalled == [emitted |-> << >>, raised |-> FALSE, called |-> FALSE]

\* The pieces the _percent_str texts are built from: two colour sequences, the
\* start of one, digits, the point, the percent sign, a space and a word.
Green == <<ESC, "[", "3", "2", "m">>
Reset == <<ESC, "[", "0", "m">>
Tokens == {Green, Reset, <<ESC, "[">>, <<"4">>, <<"2">>, <<".">>, <<"%">>, <<" ">>,
           <<"a", "b", "c">>}

\* The text that the pieces ts make, in order.
RECURSIVE Flatten(_)
Flatten(ts) == IF Len(ts) = 0 THEN << >> ELSE Head(ts) \o Flatten(Tail(ts))

\* The sequences of at most n elements of S.
RECURSIVE SeqsUpTo(_, _)
SeqsUpTo(S, n) ==
    IF n = 0 THEN {<< >>}
    ELSE LET shorter == SeqsUpTo(S, n - 1)
         IN shorter \cup {Append(t, x) : t \in {u \in shorter : Len(u) = n - 1}, x \in S}

\* The dicts the engine calls the hook with: a status, a _percent_str made of
\* pieces or no such key, a filename or no such key.
HookInputs ==
    [status : {"downloading", "finished"},
     percent : SeqsUpTo(Tokens, MaxTokens) \cup {<<Missing>>},
     filename : {Missing, <<"d", "/", "f">>}]

\* The dict as _hook reads it.
DataOf(d) ==
    [status |-> d.status,
     percent_str |-> IF d.percent = <<Missing>> THEN Missing ELSE Flatten(d.percent),
     filename |-> d.filename]

\* The engine calls the progress hook.
CallHook ==
    /\ ~hook_out.called
    /\ hook_out' = [emitted |-> Hook(DataOf(hook_data)).emitted,
                    raised |-> Hook(DataOf(hook_data)).raised,
                    called |-> TRUE]
    /\ UNCHANGED <<max_parallel, pending, running, njobs, job, wthread, inbox, launched,
                   hook_data>>

\* The log lines the engine writes through the worker's logger.
LogLines == { <<"l", "o", "g">> }

\* The dict of the progress callbacks of a running download.
Downloading ==
    [status |-> "downloading", percent |-> <<<<"4">>, <<"2">>, <<"%">>>>,
     filename |-> <<"d", "/", "f">>]

\* The events of the progress_signal emissions ps, routed one after the other.
RECURSIVE RouteProgress(_, _, _)
RouteProgress(q, w, ps) ==
    IF Len(ps) = 0 THEN q
    ELSE RouteProgress(Route(q, w, ProgressEvent(Head(ps))), w, Tail(ps))

\* The engine, in the thread of worker w, writes a log line: _QtLogger emits
\* log_signal.  At most MaxLogs events of a worker wait when it does.
WorkerLog(w, line) ==
    /\ wthread[w] = "running"
    /\ Len(inbox[w]) < MaxLogs
    /\ inbox' = Route(Q, w, LogEvent(line)).inbox
    /\ UNCHANGED <<max_parallel, pending, running, njobs, job, wthread, launched, hookvars>>

\* The engine, in the thread of worker w, calls the progress hook, which
\* emits progress_signal.
WorkerProgress(w) ==
    /\ wthread[w] = "running"
    /\ ~hook_out.called
    /\ hook_out' = [emitted |-> Hook(DataOf(hook_data)).emitted,
                    raised |-> Hook(DataOf(hook_data)).raised,
                    called |-> TRUE]
    /\ inbox' = RouteProgress(Q, w, Hook(DataOf(hook_data)).emitted).inbox
    /\ UNCHANGED <<max_parallel, pending, running, njobs, job, wthread, launched, hook_data>>

\* ------------------------------------------------------------------ specification
Init ==
    /\ max_parallel = InitialParallel
    /\ pending = << >>
    /\ running = << >>
    /\ njobs = 0
    /\ job = [j \in JobIds |-> [content |-> NoContent, state |-> "-", worker |-> NoWorker]]
    /\ wthread = [j \in JobIds |-> "none"]
    /\ inbox = [j \in JobIds |-> << >>]
    /\ launched = << >>
    /\ hook_data = NoData
    /\ hook_out = NotCalled

\* The indices cancel is called with: one negative, every valid one, and
\* MaxJobs, which is never below len(jobs()).
CancelIndices == -1..MaxJobs

Next ==
    \/ \E c \in NewContents : Enqueue(c)
    \/ \E idx \in CancelIndices : Cancel(idx)
    \/ \E w \in JobIds : Deliver(w)
    \/ \E i \in 0..(MaxParallelUI - 1) : SetMaxParallel(i)
    \/ \E w \in JobIds, o \in Outcomes : WorkerRun(w, o)

Spec == Init /\ [][Next]_vars

\* The queue constructed with any parallelism the UI offers and never changed.
InitFixed ==
    /\ max_parallel \in 1..MaxParallelUI
    /\ pending = << >>
    /\ running = << >>
    /\ njobs = 0
    /\ job = [j \in JobIds |-> [content |-> NoContent, state |-> "-", worker |-> NoWorker]]
    /\ wthread = [j \in JobIds |-> "none"]
    /\ inbox = [j \in JobIds |-> << >>]
    /\ launched = << >>
    /\ hook_data = NoData
    /\ hook_out = NotCalled

NextFixed ==
    \/ \E c \in NewContents : Enqueue(c)
    \/ \E idx \in CancelIndices : Cancel(idx)
    \/ \E w \in JobIds : Deliver(w)
    \/ \E w \in JobIds, o \in Outcomes : WorkerRun(w, o)

SpecFixed == InitFixed /\ [][NextFixed]_vars

\* The queue with the log lines and the progress callbacks of its workers.
InitEvents ==
    /\ max_parallel = InitialParallel
    /\ pending = << >>
    /\ running = << >>
    /\ njobs = 0
    /\ job = [j \in JobIds |-> [content |-> NoContent, state |-> "-", worker |-> NoWorker]]
    /\ wthread = [j \in JobIds |-> "none"]
    /\ inbox = [j \in JobIds |-> << >>]
    /\ launched = << >>
    /\ hook_data = Downloading
    /\ hook_out = NotCalled

NextEvents ==
    \/ \E c \in NewContents : Enqueue(c)
    \/ \E idx \in CancelIndices : Cancel(idx)
    \/ \E w \in JobIds : Deliver(w)
    \/ \E i \in 0..(MaxParallelUI - 1) : SetMaxParallel(i)
    \/ \E w \in JobIds, o \in Outcomes : WorkerRun(w, o)
    \/ \E w \in JobIds, line \in LogLines : WorkerLog(w, line)
    \/ \E w \in JobIds : WorkerProgress(w)

SpecEvents == InitEvents /\ [][NextEvents]_vars

\* The progress hook alone, called once with any of the dicts.
InitHook ==
    /\ max_parallel = InitialParallel
    /\ pending = << >>
    /\ running = << >>
    /\ njobs = 0
    /\ job = [j \in JobIds |-> [content |-> NoContent, state |-> "-", worker |-> NoWorker]]
    /\ wthread = [j \in JobIds |-> "none"]
    /\ inbox = [j \in JobIds |-> << >>]
    /\ launched = << >>
    /\ hook_data \in HookInputs
    /\ hook_out = NotCalled

NextHook == CallHook

SpecHook == InitHook /\ [][NextHook]_vars

\* ------------------------------------------------------------------ properties
Range(seq) == {seq[i] : i \in DOMAIN seq}

ErrorTexts == {ErrorTxt(e) : e \in ExcMessages}

\* The workers with an event queued for the control thread.
Deliverable == {w \in JobIds : Len(inbox[w]) > 0}

\* The number of queue_empty signals among the emissions e.
QueueEmptyCount(e) == Cardinality({i \in DOMAIN e : e[i].sig = "queue_empty"})

\* The contents enqueue is called with in the current state.
Enqueueable == IF njobs < MaxJobs THEN NewContents ELSE {}

\* C1: in every reachable state max_parallel is positive and
\* len(running) <= max_parallel, while max_parallel is raised and lowered at
\* runtime, also when jobs are running.
C1_RunningBounded == max_parallel >= 1 /\ Len(running) <= max_parallel

\* C1, amended: no step other than one lowering max_parallel takes
\* len(running) above max_parallel, and every step that launches a job ends
\* with len(running) <= max_parallel.
C1_BoundedUnlessLowered ==
    [][/\ (Len(running) <= max_parallel /\ max_parallel' >= max_parallel)
            => Len(running') <= max_parallel'
       /\ Len(launched') > Len(launched) => Len(running') <= max_parallel'
      ]_vars

\* max_parallel was lowered under the number of running jobs, and the job
\* enqueued since then waits in pending: no admission pass launched it.
C1_Witness ==
    /\ Len(running) > max_parallel
    /\ Len(pending) > 0
    /\ \A j \in Range(running) : job[j].state = "Running"

\* C2: with max_parallel fixed, len(running) <= max_parallel after every
\* admission pass, for every sequence of enqueue, cancel and worker events.
C2_BoundedFixed == Len(running) <= max_parallel

\* The queue is full, with jobs that completed or were cancelled before, and
\* an enqueued job waits in pending.
C2_Witness ==
    /\ Len(running) = max_parallel
    /\ Len(pending) > 0
    /\ \E j \in JobIds : job[j].state = "Done"

\* C3: jobs are launched in enqueue order (identifiers are assigned in enqueue
\* order, launched lists them in launch order).
C3_FifoLaunch ==
    \A i, k \in DOMAIN launched : i < k => launched[i] < launched[k]

\* Two jobs were launched around a job that was cancelled while queued.
C3_Witness ==
    /\ Len(launched) >= 2
    /\ \E j \in JobIds :
          /\ job[j].state = "Cancelled"
          /\ job[j].worker = NoWorker
          /\ launched[1] < j
          /\ j < launched[Len(launched)]

\* C4: once a job's state is Done, Error or Cancelled, no step changes it.
C4_TerminalStable ==
    [][\A j \in JobIds :
          job[j].state \in Terminal => job'[j].state = job[j].state]_vars

\* cancel(idx) of a Queued job leaves it Cancelled and outside pending.
C5_Removed ==
    \A idx \in CancelIndices :
        (InView(idx) /\ job[Target(idx)].state = "Queued")
            => /\ CancelResult(idx).job[Target(idx)].state = "Cancelled"
               /\ Target(idx) \notin Range(CancelResult(idx).pending)

\* C5: cancelling a Queued job sets it to Cancelled, removes it from pending,
\* and it never becomes Running.
C5_CancelQueued ==
    [][/\ C5_Removed
       /\ \A j \in JobIds :
            (job[j].state = "Cancelled" /\ job[j].worker = NoWorker)
                => job'[j].state # "Running"
      ]_vars

\* C6: cancel of a Running job calls terminate on its worker and leaves the
\* job Cancelled when it returns; the events its worker had queued are still
\* queued, none was handled.
C6_CancelRunning ==
    \A idx \in CancelIndices :
        (InView(idx) /\ job[Target(idx)].state = "Running")
            => LET j == Target(idx)
                   q == CancelResult(idx)
               IN /\ q.job[j].state = "Cancelled"
                  /\ q.terminated = {job[j].worker}
                  /\ Len(q.inbox[j]) >= Len(inbox[j])
                  /\ SubSeq(q.inbox[j], 1, Len(inbox[j])) = inbox[j]

\* A job in running is Cancelled while the status its worker emitted is still
\* queued: cancel found it Running and did not wait for the status.
C6_Witness ==
    \E j \in Range(running) :
        /\ job[j].state = "Cancelled"
        /\ Len(inbox[j]) = 2
        /\ inbox[j][1].kind = "status"

\* once is what cancel(idx) leaves: if idx addresses a job that is Done, Error
\* or Cancelled, no job, neither pending nor running has changed, and no
\* worker was terminated.
CancelTerminalNoOp(idx, once) ==
    job[Target(idx)].state \in Terminal
        => /\ once.job = job
           /\ once.pending = pending
           /\ once.running = running
           /\ once.terminated = {}

\* once is what cancel(idx) leaves: cancel(idx) called again leaves the same
\* job states.
CancelTwiceAsOnce(idx, once) == CancelQ(once, idx).job = once.job

\* C7: cancel on a terminal job changes no state and terminates no worker, and
\* cancel(idx) applied twice yields the job states of cancel(idx) applied once.
C7_CancelIdempotent ==
    \A idx \in CancelIndices :
        InView(idx) =>
            LET once == CancelResult(idx)
            IN CancelTerminalNoOp(idx, once) /\ CancelTwiceAsOnce(idx, once)

\* C7, amended: cancel on a terminal job changes no state and terminates no
\* worker, and cancel(idx) applied twice yields the job states of cancel(idx)
\* applied once unless the job addressed the first time is Queued.
C7_IdempotentOnTracked ==
    \A idx \in CancelIndices :
        InView(idx) =>
            LET once == CancelResult(idx)
            IN /\ CancelTerminalNoOp(idx, once)
               /\ job[Target(idx)].state # "Queued"
                     => CancelTwiceAsOnce(idx, once)

\* A job that was cancelled while Running, or that failed, is still in running
\* (its worker has not completed) and cancel is called on it.
C7_Witness ==
    \E idx \in CancelIndices :
        /\ InView(idx)
        /\ job[Target(idx)].state \in {"Cancelled", "Error"}
        /\ job[Target(idx)].worker # NoWorker
        /\ CancelResult(idx).emitted = <<JobUpdated(idx)>>

\* The call that left q emitted at most one queue_empty, and emitted one
\* exactly if it emptied pending and running.
DrainOnce(q) ==
    LET n == QueueEmptyCount(q.emitted)
        before == Len(pending) + Len(running)
        after == Len(q.pending) + Len(q.running)
    IN /\ n <= 1
       /\ n = 1 => (after = 0 /\ before > 0)
       /\ (before > 0 /\ after = 0) => n = 1

\* C8: a call that empties pending and running emits exactly one queue_empty;
\* queue_empty is emitted by no other call, never while a job is pending or
\* running, and never twice by one call.
C8_DrainOnce ==
    /\ \A c \in Enqueueable : DrainOnce(EnqueueResult(c))
    /\ \A idx \in CancelIndices : DrainOnce(CancelResult(idx))
    /\ \A w \in Deliverable : DrainOnce(DeliverResult(w))

\* Several jobs were enqueued, all but one have left the queue, and the
\* completion of the last one drains it.
C8_Witness ==
    /\ njobs >= 2
    /\ \E w \in Deliverable :
          /\ \A j \in (1..njobs) \ {w} : job[j].state \in Terminal
          /\ QueueEmptyCount(DeliverResult(w).emitted) = 1

\* C9: cancel(idx) with idx outside the combined view changes neither pending,
\* running, any job nor any worker, emits nothing, terminates nothing and
\* raises nothing.
C9_OutOfRangeNoOp ==
    \A idx \in CancelIndices : ~InView(idx) => CancelResult(idx) = Q

\* cancel is called with a negative index and with an index past the end of a
\* combined view that holds pending and running jobs.
C9_Witness ==
    /\ Len(pending) > 0
    /\ Len(running) > 0
    /\ \E idx \in CancelIndices : idx < 0 /\ CancelResult(idx) = Q
    /\ \E idx \in CancelIndices :
          idx >= Len(Jobs(pending, running)) /\ CancelResult(idx) = Q

\* C10: handling the status "Error: ..." of a Running job sets the job to
\* Error and emits that text on message; pending, running and every other job
\* are unchanged and nothing is raised.
C10_ErrorStatus ==
    \A w \in Deliverable :
        (Head(inbox[w]).txt \in ErrorTexts /\ job[w].state = "Running")
            => LET q == DeliverResult(w)
               IN /\ q.job[w].state = "Error"
                  /\ Message(Head(inbox[w]).txt) \in Range(q.emitted)
                  /\ q.pending = pending
                  /\ q.running = running
                  /\ \A k \in JobIds \ {w} : q.job[k] = job[k]
                  /\ ~q.raised

\* A job whose error status was handled is Error and still in running, while
\* another job runs and a third waits in pending.
C10_Witness ==
    /\ Len(pending) > 0
    /\ \E j, k \in Range(running) :
          /\ job[j].state = "Error"
          /\ inbox[j] = <<FinishedEvent>>
          /\ job[k].state = "Running"

\* seq without the job j, by identity.
Without(seq, j) == SelectSeq(seq, LAMBDA x : x # j)

\* The workers whose next queued event is the completion event.
Finishing == {w \in Deliverable : Head(inbox[w]).kind = "finished"}

\* C11: the completion handler of a worker, whatever the job's state, removes
\* the job from running and in the same call either emits queue_empty (pending
\* and running are empty) or runs admission: no job is left pending under free
\* capacity, and the head of pending is launched if the slot is free.
C11_CompletionFreesSlot ==
    \A w \in Finishing :
        LET q == DeliverResult(w)
            rest == Without(running, w)
        IN /\ w \in Range(running)
           /\ w \notin Range(q.running)
           /\ IF Len(pending) = 0 /\ Len(rest) = 0
              THEN /\ QueueEmptyCount(q.emitted) = 1
                   /\ q.launched = launched
              ELSE /\ QueueEmptyCount(q.emitted) = 0
                   /\ ~(Len(q.pending) > 0 /\ Len(q.running) < max_parallel)
                   /\ (Len(pending) > 0 /\ Len(rest) < max_parallel)
                        => /\ Head(pending) \in Range(q.running)
                           /\ q.job[Head(pending)].state = "Running"
                           /\ Len(q.launched) > Len(launched)
                           /\ q.launched[Len(launched) + 1] = Head(pending)

\* The worker of a job that ended in Error completes while a job waits in
\* pending, and the completion handler launches that job.
C11_Witness ==
    \E w \in Finishing :
        /\ job[w].state = "Error"
        /\ Len(pending) > 0
        /\ Len(running) = max_parallel
        /\ Head(pending) \in Range(DeliverResult(w).running)

\* What is left when the control thread has handled in q the status txt of
\* worker w and then its completion event.
StatusThenFinished(q, w, txt, mp) ==
    LET q1 == HandleStatusQ([q EXCEPT !.inbox[w] = Tail(@)], w, txt)
    IN OnFinishedQ([q1 EXCEPT !.inbox[w] = Tail(@)], w, mp)

\* C12: with max_parallel = 1, enqueue(A) then enqueue(B) on an empty queue
\* leaves A Running and B Queued; when A's worker has emitted "Finished" and
\* its events are handled, A is Done and out of jobs() and B is Running.
C12_Serial ==
    /\ (max_parallel = 1 /\ Len(Jobs(pending, running)) = 0 /\ njobs + 2 <= MaxJobs)
          => \A c1 \in NewContents, c2 \in Contents :
                LET a == njobs + 1
                    b == njobs + 2
                    q == EnqueueQ(EnqueueQ(Q, a, c1, max_parallel), b, c2, max_parallel)
                IN /\ q.running = <<a>>
                   /\ q.pending = <<b>>
                   /\ q.job[a].state = "Running"
                   /\ q.job[b].state = "Queued"
    /\ \A a \in JobIds :
          (/\ max_parallel = 1
           /\ running = <<a>>
           /\ job[a].state = "Running"
           /\ Len(pending) > 0
           /\ inbox[a] = <<StatusEvent(FinishedTxt), FinishedEvent>>)
          => LET b == Head(pending)
                 q == StatusThenFinished(Q, a, FinishedTxt, max_parallel)
             IN /\ q.job[a].state = "Done"
                /\ a \notin Range(Jobs(q.pending, q.running))
                /\ q.job[b].state = "Running"
                /\ q.running = <<b>>

\* The scenario has run: of two jobs enqueued at max_parallel = 1 the first is
\* Done and tracked no more, and the second runs.
C12_Witness ==
    /\ max_parallel = 1
    /\ njobs = 2
    /\ launched = <<1, 2>>
    /\ job[1].state = "Done"
    /\ job[2].state = "Running"
    /\ pending = << >>
    /\ running = <<2>>

\* C13: in every reachable state a job has a worker if and only if its state
\* is Running.
C13_WorkerIffRunning ==
    \A j \in 1..njobs : (job[j].worker # NoWorker) <=> (job[j].state = "Running")

\* i is a position of the combined view of q and the job there is j.
AddressedBy(q, i, j) ==
    /\ 0 <= i
    /\ i < Len(Jobs(q.pending, q.running))
    /\ Jobs(q.pending, q.running)[i + 1] = j

\* Every job_updated among the emissions e carries a position of job j in the
\* combined view of q.
UpdatesAddress(e, q, j) ==
    \A n \in DOMAIN e : e[n].sig = "job_updated" => AddressedBy(q, e[n].idx, j)

\* Every launch of the admission pass that starts from q emits job_updated
\* with the position the launched job has in the view at that moment.
RECURSIVE LaunchIndexOk(_, _)
LaunchIndexOk(q, mp) ==
    IF CanLaunch(q.pending, q.running, mp)
    THEN LET n == LaunchOne(q)
             e == n.emitted[Len(n.emitted)]
         IN /\ e.sig = "job_updated"
            /\ AddressedBy(n, e.idx, Head(q.pending))
            /\ LaunchIndexOk(n, mp)
    ELSE TRUE

\* The job_updated emissions of admission, from enqueue and from the
\* completion handler.
C14_Admission ==
    /\ \A c \in Enqueueable :
          LaunchIndexOk([Q EXCEPT !.pending = Append(@, njobs + 1),
                                  !.job[njobs + 1] = [content |-> c, state |-> "Queued",
                                                      worker |-> NoWorker]],
                        max_parallel)
    /\ \A w \in Finishing :
          LaunchIndexOk([Q EXCEPT !.running = Without(@, w)], max_parallel)

\* The job_updated emissions of the status handler (the view is the one the
\* handler leaves) and of the completion handler for its job (the view is the
\* one it finds: the job is removed after the emission).
C14_Handlers ==
    /\ \A w \in Deliverable \ Finishing :
          UpdatesAddress(DeliverResult(w).emitted, DeliverResult(w), w)
    /\ \A w \in Finishing :
          /\ Len(DeliverResult(w).emitted) > 0
          /\ UpdatesAddress(<<DeliverResult(w).emitted[1]>>, Q, w)

\* The job_updated emission of cancel for a Queued or Running target: cancel
\* emits last, the view is the one cancel leaves.
C14_Cancel ==
    \A idx \in CancelIndices :
        (InView(idx) /\ job[Target(idx)].state \in {"Queued", "Running"})
            => UpdatesAddress(CancelResult(idx).emitted, CancelResult(idx), Target(idx))

\* C14: every job_updated(i) carries, when it is emitted, a valid position of
\* the combined view, the one of the job whose state changed: from admission,
\* from the status handler, from the completion handler and from cancel.
C14_IndexAddressesJob == C14_Admission /\ C14_Handlers /\ C14_Cancel

\* The emissions e hold an error text on the message channel.
EmitsErrorText(e) ==
    \E n \in DOMAIN e : e[n].sig = "message" /\ e[n].txt \in ErrorTexts

\* C15: once cancel has set a job to Cancelled, no event of its worker that the
\* queue handles afterwards sets it to Error or puts an error text on the
\* message channel.
C15_CancelledNotError ==
    \A w \in Deliverable :
        job[w].state = "Cancelled"
            => /\ DeliverResult(w).job[w].state # "Error"
               /\ ~EmitsErrorText(DeliverResult(w).emitted)

\* What run does for each outcome of the engine call: no exception leaves it,
\* and it emits one status and then the thread's completion: "Finished" if
\* the call returned, "Error: " and the exception's text if it raised.
C16_RunStatus ==
    \A o \in Outcomes :
        LET r == Run(o) IN
        /\ ~r.uncaught
        /\ Len(r.events) = 2
        /\ r.events[1].kind = "status"
        /\ r.events[2] = FinishedEvent
        /\ (r.events[1].txt = FinishedTxt) <=> ~o.raised
        /\ o.raised => r.events[1].txt = ErrorPrefix \o <<":", " ">> \o o.exc

\* C16: a worker run that is not terminated emits exactly one status, before
\* its completion event: "Finished" if the engine call returns, "Error: ..."
\* with the error's text if it raises, and no failure leaves run uncaught.  (A
\* step that ends a thread and leaves its job's state alone is a run to the
\* end: terminate comes with the state Cancelled.)
C16_OneStatus ==
    [][/\ C16_RunStatus
       /\ \A w \in JobIds :
            (wthread[w] = "running" /\ wthread'[w] = "ended" /\ job'[w].state = job[w].state)
                => \E txt \in StatusTexts :
                      inbox'[w] = inbox[w] \o <<StatusEvent(txt), FinishedEvent>>
      ]_vars

\* One worker ran to its end with a failure and another with success, and
\* their events wait for the control thread.
C16_Witness ==
    \E v, w \in JobIds :
        /\ job[v].state = "Running"
        /\ job[w].state = "Running"
        /\ inbox[v] = <<StatusEvent(FinishedTxt), FinishedEvent>>
        /\ \E t \in ErrorTexts : inbox[w] = <<StatusEvent(t), FinishedEvent>>

\* seq lists some of the elements of the duplicate-free sequence of, in the
\* order of of.
InOrderOf(seq, of) ==
    \A i, k \in DOMAIN seq :
        i < k => \E m, n \in DOMAIN of : m < n /\ of[m] = seq[i] /\ of[n] = seq[k]

\* What a caller can make of a list s: emptied, shortened, reversed, extended.
Changes(s) ==
    {<< >>, Append(s, 1), [i \in DOMAIN s |-> s[Len(s) + 1 - i]]}
        \cup (IF Len(s) > 0 THEN {Tail(s)} ELSE {})

\* C17: jobs() returns the pending jobs in FIFO (enqueue) order followed by the
\* running jobs in launch order, leaves the queue as it is, and no change of
\* the returned sequence changes pending or running.
C17_JobsSnapshot ==
    LET ret == JobsCall(Q) IN
    /\ ret.seq = pending \o running
    /\ \A i, k \in DOMAIN pending : i < k => pending[i] < pending[k]
    /\ InOrderOf(running, launched)
    /\ ret.after = Q
    /\ \A s \in Changes(ret.seq) :
          /\ ChangeReturned(ret, s).pending = pending
          /\ ChangeReturned(ret, s).running = running
          /\ ChangeReturned(ret, s).job = job

\* jobs() is called with nothing pending and two jobs running, the second of
\* them launched after an earlier job left running.
C17_Witness ==
    /\ Len(pending) = 0
    /\ Len(running) = 2
    /\ Len(launched) = 3
    /\ JobsCall(Q).seq = running

\* The pieces ts without the colour sequences and the percent signs.
Uncoloured(ts) == SelectSeq(ts, LAMBDA t : t \notin {Green, Reset, <<"%">>})

\* The pieces ts without the spaces at their ends.
RECURSIVE Trimmed(_)
Trimmed(ts) ==
    IF Len(ts) > 0 /\ Head(ts) = <<" ">> THEN Trimmed(Tail(ts))
    ELSE IF Len(ts) > 0 /\ ts[Len(ts)] = <<" ">> THEN Trimmed(SubSeq(ts, 1, Len(ts) - 1))
    ELSE ts

\* Whether the pieces ts write a decimal number: digits, at most one point, at
\* least one digit.
IsNumber(ts) ==
    /\ \A i \in DOMAIN ts : ts[i] \in {<<"4">>, <<"2">>, <<".">>}
    /\ Cardinality({i \in DOMAIN ts : ts[i] = <<".">>}) <= 1
    /\ \E i \in DOMAIN ts : ts[i] # <<".">>

\* The number that the pieces ts write.
NumberOf(ts) ==
    LET p == IF \E i \in DOMAIN ts : ts[i] = <<".">>
             THEN CHOOSE i \in DOMAIN ts : ts[i] = <<".">>
             ELSE Len(ts) + 1
    IN Float(IntOf(Flatten(SubSeq(ts, 1, p - 1))), Flatten(SubSeq(ts, p + 1, Len(ts))))

\* The percent that the hook is to emit for the _percent_str made of ts.
ExpectedPercent(ts) ==
    IF ts = <<Missing>> THEN Zero
    ELSE LET plain == Trimmed(Uncoloured(ts))
         IN IF IsNumber(plain) THEN NumberOf(plain) ELSE Zero

\* C18: the progress hook never raises; for a "downloading" event it emits one
\* progress whose percent is the number written in _percent_str once colour
\* sequences and percent signs are stripped, and 0.0 when the text is missing,
\* empty or no number ("abc" -> 0.0, "" -> 0.0, coloured "42%" -> 42.0); for
\* any other status it emits nothing.
C18_ProgressPercent ==
    hook_out.called =>
        /\ ~hook_out.raised
        /\ hook_data.status # "downloading" => hook_out.emitted = << >>
        /\ hook_data.status = "downloading" =>
              /\ Len(hook_out.emitted) = 1
              /\ hook_out.emitted[1].pct = ExpectedPercent(hook_data.percent)
              /\ hook_data.percent \in {<<Missing>>, << >>, <<<<"a", "b", "c">>>>}
                    => hook_out.emitted[1].pct = Zero
              /\ hook_data.percent = <<Green, <<"4">>, <<"2">>, <<"%">>>>
                    => hook_out.emitted[1].pct = Float(42, << >>)

\* The hook was called with a colour-coded "42%" and emitted 42.0.
C18_Witness ==
    /\ hook_out.called
    /\ hook_data.status = "downloading"
    /\ hook_data.percent = <<Green, <<"4">>, <<"2">>, <<"%">>>>
    /\ hook_out.emitted = <<[pct |-> Float(42, << >>), name |-> <<"f">>]>>

\* The call that left q left a job in pending under free capacity.
Waiting(q) == Len(q.pending) > 0 /\ Len(q.running) < max_parallel

\* idx addresses a job that cancel(idx) cancels.
Cancellable(idx) == InView(idx) /\ job[Target(idx)].state \in {"Queued", "Running"}

\* Enqueue and the completion handler leave no job in pending under free
\* capacity.
C19_AdmissionRerun ==
    /\ \A c \in Enqueueable : ~Waiting(EnqueueResult(c))
    /\ \A w \in Finishing : ~Waiting(DeliverResult(w))

\* C19: when enqueue, cancel or the completion handler returns, no job is
\* left in pending while len(running) < max_parallel, also after max_parallel
\* was raised at runtime.
C19_AdmissionAfterEveryCall ==
    /\ C19_AdmissionRerun
    /\ \A idx \in CancelIndices : Cancellable(idx) => ~Waiting(CancelResult(idx))

\* C19, amended: when enqueue or the completion handler returns, no job is
\* left in pending while len(running) < max_parallel, also after max_parallel
\* was raised at runtime; cancel runs no admission, and when it returns a job
\* is left in pending under free capacity only if one was when it was called.
C19_AdmissionOnEnqueueAndCompletion ==
    /\ C19_AdmissionRerun
    /\ \A idx \in CancelIndices :
          /\ CancelResult(idx).launched = launched
          /\ Waiting(CancelResult(idx)) => Waiting(Q)

\* max_parallel was raised by two or more while a job waits: enqueue launches
\* the waiting job and the new one in one admission pass, and cancel of a job
\* returns with the waiting job still in pending under free capacity.
C19_Witness ==
    /\ Waiting(Q)
    /\ \E c \in Enqueueable : Len(EnqueueResult(c).launched) = Len(launched) + 2
    /\ \E idx \in CancelIndices : Cancellable(idx) /\ Waiting(CancelResult(idx))

\* C20: cancel(idx) changes the job at position idx alone: every other job
\* keeps its state and its place in pending or running, also when a pending
\* job has the same urls, opts and out_dir as the job addressed.
C20_CancelOnlyTarget ==
    \A idx \in CancelIndices :
        InView(idx) =>
            LET j == Target(idx)
                q == CancelResult(idx)
            IN /\ \A k \in JobIds \ {j} : q.job[k] = job[k]
               /\ Without(q.pending, j) = Without(pending, j)
               /\ Without(q.running, j) = Without(running, j)

\* Every worker that was started has completed and the control thread has
\* handled every event: nothing is left to happen unless a job is enqueued.
Quiescent ==
    \A w \in JobIds : wthread[w] # "running" /\ Len(inbox[w]) = 0

\* C21: with max_parallel >= 1, once every started worker has completed and
\* its events are handled, every enqueued job is Done, Error or Cancelled and
\* none is in pending: no job stays Queued or Running for ever, whatever the
\* order of enqueue, cancel and worker events.
C21_EveryJobEnds ==
    (max_parallel >= 1 /\ Quiescent)
        => /\ \A j \in 1..njobs : job[j].state \in Terminal
           /\ pending = << >>

\* The number of jobs an admission pass launches when waiting jobs wait and
\* occupied jobs run: as many as wait and the current max_parallel leaves
\* room for.
Admitted(waiting, occupied) ==
    LET free == IF max_parallel > occupied THEN max_parallel - occupied ELSE 0
    IN IF waiting < free THEN waiting ELSE free

\* The admission passes of enqueue and of the completion handler admit by the
\* current value of max_parallel.
C22_NextPass ==
    /\ \A c \in Enqueueable :
          Len(EnqueueResult(c).launched)
              = Len(launched) + Admitted(Len(pending) + 1, Len(running))
    /\ \A w \in Finishing :
          Len(DeliverResult(w).launched)
              = Len(launched) + Admitted(Len(pending), Len(running) - 1)

\* C22: a change of max_parallel launches no job and stops none: pending,
\* running, every job, every worker thread and every queued event are as
\* before, and the value in force counts at the admission pass of the next
\* enqueue or worker completion.
C22_SetOnly ==
    [][/\ C22_NextPass
       /\ max_parallel' # max_parallel
            => UNCHANGED <<pending, running, njobs, job, wthread, inbox, launched>>
      ]_vars

\* max_parallel was raised while a job waits behind a running one: the waiting
\* job was not launched, and the running job runs on.
C22_Witness ==
    /\ Len(running) >= 1
    /\ Len(pending) >= 1
    /\ Len(running) < max_parallel
    /\ \A j \in Range(pending) : job[j].state = "Queued"
    /\ \A j \in Range(running) : job[j].state = "Running" /\ wthread[j] = "running"

\* C23: no job is in both pending and running, every job in pending is Queued
\* and has no worker, every Running job is in running, and no job in a
\* terminal state is in pending.
C23_Partition ==
    /\ Range(pending) \cap Range(running) = {}
    /\ \A j \in Range(pending) :
          /\ job[j].state = "Queued"
          /\ job[j].worker = NoWorker
          /\ job[j].state \notin Terminal
    /\ \A j \in 1..njobs : job[j].state = "Running" => j \in Range(running)

\* The progress events of the callbacks of a running download.
ProgressEvents == {ProgressEvent(Hook(DataOf(Downloading)).emitted[1])}

\* The signal of ev, emitted by worker w, reaches the control thread.
Reaches(w, ev) == Route(Q, w, ev).inbox[w] = Append(inbox[w], ev)

\* C24: the queue wires the progress, status and log channels of every worker
\* it launches: every progress event of a running job reaches the queue and
\* its handling emits job_updated with the job's index, and every log line
\* reaches the queue and is emitted as it is on the message channel.
C24_ThreeChannels ==
    \A w \in Range(running) :
        wthread[w] = "running" =>
            /\ \A ev \in ProgressEvents :
                  /\ Reaches(w, ev)
                  /\ JobUpdated(Index(job, Jobs(pending, running), w))
                        \in Range(SlotQ(Q, w, ev, max_parallel).emitted)
            /\ \A t \in StatusTexts : Reaches(w, StatusEvent(t))
            /\ \A line \in LogLines :
                  /\ Reaches(w, LogEvent(line))
                  /\ SlotQ(Q, w, LogEvent(line), max_parallel).emitted = <<Message(line)>>

====
